---- MODULE Spec2Model ----
(***************************************************************************)
(* OverlayToaster (packages/core/src/components/toast/overlayToaster.tsx): *)
(* the toast display queue.  state.toasts is the visible collection        *)
(* (newest first), queue.toasts the pending one, queue.isRunning and       *)
(* queue.cancel the scheduler state, and `timers` the timeouts the host    *)
(* has armed for handleQueueTimeout.                                       *)
(*                                                                         *)
(* The toaster is driven imperatively (show / dismiss / clear called from  *)
(* outside a render, timer callbacks), where setState applies its updater  *)
(* before the call returns; every operation is one atomic step.            *)
(*                                                                         *)
(* ContextMenu2 (packages/popover2/src/contextMenu2.tsx): a function       *)
(* component; its state hooks, its props, and the memoised                 *)
(* handleContextMenu callback.  A step is an event or a props change       *)
(* together with the renders and the passive effect it causes (the host    *)
(* flushes pending effects before it dispatches the next event).           *)
(*                                                                         *)
(* Select-family keyboard navigation (packages/select): the component is   *)
(* exercised by test/selectComponentSuite.tsx; the active-item move itself *)
(* is described by those tests.                                            *)
(*                                                                         *)
(* Each component has its own specification; the variables of the other    *)
(* components stay at their unmounted values in it.                        *)
(***************************************************************************)
EXTENDS Integers, Sequences, FiniteSets, TLC

\* ---------------------------------------------------------------- bounds
\* Number of show calls a behaviour may make (caps toastId and the messages).
MaxShows == 4
\* Largest maxToasts prop a behaviour is configured with.
MaxLimit == 2

\* ---------------------------------------------------------------- inputs
\* The key argument left out (key?: string).
Undefined == "undefined"
\* Keys a caller may pass to show: an ordinary one, and one spelled like
\* an auto-generated identifier.
CallerKeys == {"k1", "toast-0"}

VARIABLES
    maxToasts,   \* props.maxToasts: <<>> when undefined, <<n>> when set
    toasts,      \* state.toasts: the visible records, newest first
    queueToasts, \* queue.toasts: the pending records, oldest first
    isRunning,   \* queue.isRunning
    cancel,      \* queue.cancel: <<>> when undefined, <<h>> cancels timeout h
    toastId,     \* auto-incrementing identifier for un-keyed toasts
    timers,      \* handles of the armed timeouts for handleQueueTimeout
    shows,       \* number of show calls made so far
    calls,       \* onDismiss invocations made by the last operation, in order
    lastOp,      \* the last operation: its name, arguments, branch and result
    cleared,     \* `shows` at the last clear()
    keyedPending,\* the records a keyed show has put in pending, with no
                 \* dismiss or clear since: key, the message it was queued
                 \* with (first), the message it carries now (last), and
                 \* whether the last operation released it
    validation   \* "pending" until the props are validated, then "ok" or "error"

vars == <<maxToasts, toasts, queueToasts, isRunning, cancel, toastId, timers,
          shows, calls, lastOp, cleared, keyedPending, validation>>

VARIABLES
    disabled,          \* props.disabled (default false)
    content,           \* props.content: undefined, an element or a render function
    children,          \* props.children: React nodes or a render function
    onContextMenu,     \* props.onContextMenu: undefined or a handler
    targetOffset,      \* useState: <<>> when undefined, else <<[left, top]>>
    mouseEvent,        \* useState: <<>> when undefined, else <<event>>
    isOpen,            \* useState
    handleContextMenu, \* the callback useCallback holds: what its closure captured
    events,            \* number of contextmenu events dispatched so far
    menuOp             \* the last step: its event and what the handler did with it

menuVars == <<disabled, content, children, onContextMenu, targetOffset, mouseEvent,
              isOpen, handleContextMenu, events, menuOp>>

VARIABLES
    items,              \* props.items with itemDisabled and the query's predicate applied
    activeItem,         \* the active item: <<>> when null, else <<rank>>
    onActiveItemChange, \* the calls of props.onActiveItemChange made by the last key
    lastKey             \* the last key pressed in the input

selectVars == <<items, activeItem, onActiveItemChange, lastKey>>

\* No ContextMenu2 is mounted.
MenuUnmounted ==
    /\ disabled = FALSE
    /\ content = Undefined
    /\ children = "node"
    /\ onContextMenu = Undefined
    /\ targetOffset = <<>>
    /\ mouseEvent = <<>>
    /\ isOpen = FALSE
    /\ handleContextMenu = <<>>
    /\ events = 0
    /\ menuOp = <<>>

\* No select component is mounted.
SelectUnmounted ==
    /\ items = <<>>
    /\ activeItem = <<>>
    /\ onActiveItemChange = <<>>
    /\ lastKey = ""

\* ------------------------------------------------------------- helpers
\* The auto key numbered from the counter after its increment.
AutoKeyPreIncrement(n) == "toast-" \o ToString(n + 1)

\* `toast-${this.toastId++}`
AutoKey(n) == "toast-" \o ToString(n)

Keys(ts) == {ts[i].key : i \in 1..Len(ts)}

\* A key no show call ever passes or generates.
UnknownKey == "k0"

\* The keys dismiss is tried with: every identifier the toaster holds, and
\* one it does not know.
DismissKeys(visible, pending) == Keys(visible) \cup Keys(pending) \cup {UnknownKey}

\* The ToastProps of the n-th show call: its message is the call's serial
\* number, onDismiss is present or not.
Props(n, hasOnDismiss) == [message |-> n, onDismiss |-> hasOnDismiss]

\* createToastOptions ignoring the key it is given.
CreateToastOptionsAuto(props, key) ==
    [key |-> AutoKey(toastId),
     message |-> props.message,
     onDismiss |-> props.onDismiss]

\* createToastOptions: { ...props, key }, key defaulting to the auto key.
CreateToastOptions(props, key) ==
    [key |-> IF key = Undefined THEN AutoKey(toastId) ELSE key,
     message |-> props.message,
     onDismiss |-> props.onDismiss]

\* The update done as filter-then-push: the record moves to the end.
ReplaceAndAppend(ts, key, options) ==
    Append(SelectSeq(ts, LAMBDA t : t.key # key), options)

\* The update done as filter-then-unshift: the record moves to the front.
ReplaceAndPrepend(ts, key, options) ==
    <<options>> \o SelectSeq(ts, LAMBDA t : t.key # key)

\* The update with the map's result dropped: the old content stays.
ReplaceNothing(ts, key, options) == ts

\* toasts.map(t => (t.key === key ? options : t))
ReplaceKey(ts, key, options) ==
    [i \in 1..Len(ts) |-> IF ts[i].key = key THEN options ELSE ts[i]]

RECURSIVE DismissCalls(_, _, _)
\* The t.onDismiss?.(timeoutExpired) calls of dismiss's filter, in order.
DismissCalls(ts, key, timeoutExpired) ==
    IF ts = <<>> THEN <<>>
    ELSE (IF Head(ts).key = key /\ Head(ts).onDismiss
          THEN <<[key |-> Head(ts).key, message |-> Head(ts).message,
                  timeoutExpired |-> timeoutExpired]>>
          ELSE <<>>)
         \o DismissCalls(Tail(ts), key, timeoutExpired)

\* dismiss with the matchesKey test missing around the callback: every shown
\* toast's onDismiss is invoked.
DismissToastsNotifyAll(ts, key, timeoutExpired) ==
    [toasts |-> SelectSeq(ts, LAMBDA t : t.key # key),
     calls |-> LET withCb == SelectSeq(ts, LAMBDA t : t.onDismiss)
               IN [i \in 1..Len(withCb) |->
                     [key |-> withCb[i].key, message |-> withCb[i].message,
                      timeoutExpired |-> timeoutExpired]]]

\* dismiss dropping its timeoutExpired argument: t.onDismiss?.(false).
DismissToastsNotExpired(ts, key, timeoutExpired) ==
    [toasts |-> SelectSeq(ts, LAMBDA t : t.key # key),
     calls |-> DismissCalls(ts, key, FALSE)]

\* dismiss's updater: the records kept and the callbacks invoked.
DismissToasts(ts, key, timeoutExpired) ==
    [toasts |-> SelectSeq(ts, LAMBDA t : t.key # key),
     calls |-> DismissCalls(ts, key, timeoutExpired)]

\* dismissIfAtLimit comparing with > instead of ===.
DismissIfOverLimit(ts) ==
    IF Len(ts) > maxToasts[1]
    THEN DismissToasts(ts, ts[Len(ts)].key, FALSE)
    ELSE [toasts |-> ts, calls |-> <<>>]

\* dismissIfAtLimit: dismiss the oldest toast when at the maxToasts limit.
DismissIfAtLimit(ts) ==
    IF Len(ts) = maxToasts[1]
    THEN DismissToasts(ts, ts[Len(ts)].key, FALSE)
    ELSE [toasts |-> ts, calls |-> <<>>]

\* immediatelyShowToast adding the toast at the end: [...toasts, options].
ImmediatelyShowToastAppend(ts, options) ==
    LET d == IF maxToasts # <<>> /\ maxToasts[1] # 0
             THEN DismissIfAtLimit(ts)
             ELSE [toasts |-> ts, calls |-> <<>>]
    IN [toasts |-> Append(d.toasts, options), calls |-> d.calls]

\* immediatelyShowToast: evict if needed, then prepend.
ImmediatelyShowToast(ts, options) ==
    LET d == IF maxToasts # <<>> /\ maxToasts[1] # 0
             THEN DismissIfAtLimit(ts)
             ELSE [toasts |-> ts, calls |-> <<>>]
    IN [toasts |-> <<options>> \o d.toasts, calls |-> d.calls]

\* unshift() in place of push(): the new toast jumps the queue.
EnqueueFront(q, options) == <<options>> \o q

\* this.queue.toasts.push(options)
Enqueue(q, options) == Append(q, options)

\* pop() in place of shift(): the newest queued toast is taken.
Pop(q) == [next |-> q[Len(q)], rest |-> SubSeq(q, 1, Len(q) - 1)]

\* const nextToast = this.queue.toasts.shift()
Shift(q) == [next |-> Head(q), rest |-> Tail(q)]

\* The handle the host's setTimeout returns: one no armed timeout carries.
NewHandle(armed) == CHOOSE h \in 0..Cardinality(armed) : h \notin armed

\* clear() without the queue.cancel?.() call.
CancelNothing(armed, c) == armed

\* queue.cancel?.(): clearTimeout of the handle, if there is one.
CancelTimers(armed, c) == IF c = <<>> THEN armed ELSE armed \ {c[1]}

\* clear() passing true to onDismiss.
ClearCallsExpired(ts) ==
    LET withCb == SelectSeq(ts, LAMBDA t : t.onDismiss)
    IN [i \in 1..Len(withCb) |->
          [key |-> withCb[i].key, message |-> withCb[i].message,
           timeoutExpired |-> TRUE]]

\* clear()'s t.onDismiss?.(false) over state.toasts, in order.
ClearCalls(ts) ==
    LET withCb == SelectSeq(ts, LAMBDA t : t.onDismiss)
    IN [i \in 1..Len(withCb) |->
          [key |-> withCb[i].key, message |-> withCb[i].message,
           timeoutExpired |-> FALSE]]

\* What is recorded of an operation: its name, key and timeoutExpired
\* arguments, the branch it took, what it returned, and the name of the
\* operation before it; and of the operations so far: whether the release
\* timer has fired since a record last entered state.toasts, and how many
\* show calls came without a key.
Op(name, key, flag, branch, ret) ==
    [op |-> name, key |-> key, flag |-> flag, branch |-> branch, ret |-> ret,
     after |-> lastOp.op,
     firedSince |-> IF branch \in {"immediate", "release"} THEN FALSE
                    ELSE IF name = "timeout" THEN TRUE
                    ELSE lastOp.firedSince,
     unkeyed |-> IF name = "show" /\ key = Undefined
                 THEN lastOp.unkeyed + 1 ELSE lastOp.unkeyed]

\* validateProps with < 0 in place of < 1.
ValidatePropsBelowZero(m) == ~(m # <<>> /\ m[1] < 0)

\* validateProps: TRUE when it returns, FALSE when it throws
\* TOASTER_MAX_TOASTS_INVALID.
ValidateProps(m) == ~(m # <<>> /\ m[1] < 1)

\* getToasts()
GetToasts == toasts

\* The records of keyedPending that are still pending.
Tracked == {u \in keyedPending : ~u.released}

\* ---------------------------------------------------------------- state
Init ==
    /\ maxToasts \in {<<>>} \cup {<<n>> : n \in 1..MaxLimit}
    /\ toasts = <<>>
    /\ queueToasts = <<>>
    /\ isRunning = FALSE
    /\ cancel = <<>>
    /\ toastId = 0
    /\ timers = {}
    /\ shows = 0
    /\ calls = <<>>
    /\ cleared = 0
    /\ keyedPending = {}
    /\ validation = "ok"
    /\ lastOp = [op |-> "init", key |-> Undefined, flag |-> FALSE, branch |-> "",
                 ret |-> Undefined, after |-> "", firedSince |-> FALSE,
                 unkeyed |-> 0]
    /\ MenuUnmounted
    /\ SelectUnmounted

\* startQueueTimeout without the isRunning = true assignment.
StartQueueTimeoutUnflagged(armed) ==
    LET h == NewHandle(armed) IN
    /\ UNCHANGED isRunning
    /\ cancel' = <<h>>
    /\ timers' = armed \cup {h}

\* startQueueTimeout, given the timeouts armed when it is called.
StartQueueTimeout(armed) ==
    LET h == NewHandle(armed) IN
    /\ isRunning' = TRUE
    /\ cancel' = <<h>>
    /\ timers' = armed \cup {h}

\* show(props, key?)
Show(hasOnDismiss, key) ==
    /\ shows < MaxShows
    /\ shows' = shows + 1
    /\ LET options == CreateToastOptions(Props(shows + 1, hasOnDismiss), key) IN
       /\ toastId' = IF key = Undefined THEN toastId + 1 ELSE toastId
       /\ IF key # Undefined /\ key \in Keys(queueToasts)
          THEN \* maybeUpdateExistingToast: an existing queued toast
               /\ queueToasts' = ReplaceKey(queueToasts, key, options)
               /\ keyedPending' = {IF u.key = key
                                     THEN [u EXCEPT !.last = options.message]
                                     ELSE u : u \in Tracked}
               /\ calls' = <<>>
               /\ lastOp' = Op("show", key, FALSE, "updateQueued", options.key)
               /\ UNCHANGED <<toasts, isRunning, cancel, timers>>
          ELSE IF key # Undefined /\ key \in Keys(toasts)
          THEN \* maybeUpdateExistingToast: an existing shown toast
               /\ toasts' = ReplaceKey(toasts, key, options)
               /\ calls' = <<>>
               /\ keyedPending' = Tracked
               /\ lastOp' = Op("show", key, FALSE, "updateShown", options.key)
               /\ UNCHANGED <<queueToasts, isRunning, cancel, timers>>
          ELSE IF isRunning
          THEN /\ queueToasts' = Enqueue(queueToasts, options)
               /\ calls' = <<>>
               /\ keyedPending' =
                     IF key = Undefined THEN Tracked
                     ELSE {u \in Tracked : u.key # key}
                          \cup {[key |-> key, first |-> options.message,
                                  last |-> options.message, released |-> FALSE]}
               /\ lastOp' = Op("show", key, FALSE, "enqueue", options.key)
               /\ UNCHANGED <<toasts, isRunning, cancel, timers>>
          ELSE LET r == ImmediatelyShowToast(toasts, options) IN
               /\ toasts' = r.toasts
               /\ calls' = r.calls
               /\ StartQueueTimeout(timers)
               /\ lastOp' = Op("show", key, FALSE, "immediate", options.key)
               /\ keyedPending' = Tracked
               /\ UNCHANGED queueToasts
    /\ UNCHANGED <<maxToasts, cleared, validation>>

\* handleQueueTimeout without the isRunning = false of its else branch.
HandleQueueTimeoutStaysRunning(h) ==
    /\ h \in timers
    /\ IF queueToasts # <<>>
       THEN LET nextToast == Shift(queueToasts).next
                r == ImmediatelyShowToast(toasts, nextToast) IN
            /\ queueToasts' = Shift(queueToasts).rest
            /\ toasts' = r.toasts
            /\ calls' = r.calls
            /\ StartQueueTimeout(timers \ {h})
            /\ keyedPending' = {IF u.key = nextToast.key
                                  THEN [u EXCEPT !.released = TRUE]
                                  ELSE u : u \in Tracked}
            /\ lastOp' = Op("timeout", nextToast.key, FALSE, "release", Undefined)
       ELSE /\ timers' = timers \ {h}
            /\ calls' = <<>>
            /\ lastOp' = Op("timeout", Undefined, FALSE, "idle", Undefined)
            /\ keyedPending' = Tracked
            /\ UNCHANGED <<toasts, queueToasts, cancel, isRunning>>
    /\ UNCHANGED <<maxToasts, toastId, shows, cleared, validation>>

\* handleQueueTimeout without the startQueueTimeout() after a release.
HandleQueueTimeoutNoRestart(h) ==
    /\ h \in timers
    /\ IF queueToasts # <<>>
       THEN LET nextToast == Shift(queueToasts).next
                r == ImmediatelyShowToast(toasts, nextToast) IN
            /\ queueToasts' = Shift(queueToasts).rest
            /\ toasts' = r.toasts
            /\ calls' = r.calls
            /\ timers' = timers \ {h}
            /\ keyedPending' = {IF u.key = nextToast.key
                                  THEN [u EXCEPT !.released = TRUE]
                                  ELSE u : u \in Tracked}
            /\ lastOp' = Op("timeout", nextToast.key, FALSE, "release", Undefined)
            /\ UNCHANGED <<isRunning, cancel>>
       ELSE /\ isRunning' = FALSE
            /\ timers' = timers \ {h}
            /\ calls' = <<>>
            /\ lastOp' = Op("timeout", Undefined, FALSE, "idle", Undefined)
            /\ keyedPending' = Tracked
            /\ UNCHANGED <<toasts, queueToasts, cancel>>
    /\ UNCHANGED <<maxToasts, toastId, shows, cleared, validation>>

\* handleQueueTimeout, run by the host when timeout h expires.
HandleQueueTimeout(h) ==
    /\ h \in timers
    /\ IF queueToasts # <<>>
       THEN LET nextToast == Shift(queueToasts).next
                r == ImmediatelyShowToast(toasts, nextToast) IN
            /\ queueToasts' = Shift(queueToasts).rest
            /\ toasts' = r.toasts
            /\ calls' = r.calls
            /\ StartQueueTimeout(timers \ {h})
            /\ keyedPending' = {IF u.key = nextToast.key
                                  THEN [u EXCEPT !.released = TRUE]
                                  ELSE u : u \in Tracked}
            /\ lastOp' = Op("timeout", nextToast.key, FALSE, "release", Undefined)
       ELSE /\ isRunning' = FALSE
            /\ timers' = timers \ {h}
            /\ calls' = <<>>
            /\ lastOp' = Op("timeout", Undefined, FALSE, "idle", Undefined)
            /\ keyedPending' = Tracked
            /\ UNCHANGED <<toasts, queueToasts, cancel>>
    /\ UNCHANGED <<maxToasts, toastId, shows, cleared, validation>>

\* dismiss(key, timeoutExpired = false)
Dismiss(key, timeoutExpired) ==
    LET r == DismissToasts(toasts, key, timeoutExpired) IN
    /\ toasts' = r.toasts
    /\ calls' = r.calls
    /\ lastOp' = Op("dismiss", key, timeoutExpired,
                    IF key \in Keys(toasts) THEN "shown" ELSE "absent", Undefined)
    /\ keyedPending' = {}
    /\ UNCHANGED <<maxToasts, queueToasts, isRunning, cancel, toastId, timers,
                   shows, cleared, validation>>

\* The queue object clear() installs.
ClearedQueue == [cancel |-> <<>>, isRunning |-> FALSE, toasts |-> <<>>]

\* clear() without its final setState.
KeptToasts(ts) == ts

\* this.setState({ toasts: [], toastRefs: {} })
ClearedToasts(ts) == <<>>

\* clear()
Clear ==
    /\ timers' = CancelTimers(timers, cancel)
    /\ cancel' = ClearedQueue.cancel
    /\ isRunning' = ClearedQueue.isRunning
    /\ queueToasts' = ClearedQueue.toasts
    /\ calls' = ClearCalls(toasts)
    /\ toasts' = ClearedToasts(toasts)
    /\ cleared' = shows
    /\ keyedPending' = {}
    /\ lastOp' = Op("clear", Undefined, FALSE,
                    IF queueToasts # <<>> THEN "pending"
                    ELSE IF isRunning THEN "running" ELSE "idle", Undefined)
    /\ UNCHANGED <<maxToasts, toastId, shows, validation>>

Next ==
    \/ /\ \E hasOnDismiss \in BOOLEAN, key \in CallerKeys \cup {Undefined} :
             Show(hasOnDismiss, key)
       /\ UNCHANGED <<menuVars, selectVars>>
    \/ /\ \E h \in timers : HandleQueueTimeout(h)
       /\ UNCHANGED <<menuVars, selectVars>>
    \/ /\ \E key \in DismissKeys(toasts, queueToasts), timeoutExpired \in BOOLEAN :
             Dismiss(key, timeoutExpired)
       /\ UNCHANGED <<menuVars, selectVars>>
    \/ /\ Clear
       /\ UNCHANGED <<menuVars, selectVars>>

Spec == Init /\ [][Next]_<<vars, menuVars, selectVars>>

\* The host runs the callback of an armed timeout.
TimerFires ==
    /\ \E h \in timers : HandleQueueTimeout(h)
    /\ UNCHANGED <<menuVars, selectVars>>

\* The operations with every toast carrying an onDismiss and every dismiss
\* made by the caller (timeoutExpired = false): neither the callbacks nor
\* the flag are read by the scheduler.
LiveNext ==
    \/ /\ \E key \in CallerKeys \cup {Undefined} : Show(TRUE, key)
       /\ UNCHANGED <<menuVars, selectVars>>
    \/ TimerFires
    \/ /\ \E key \in DismissKeys(toasts, queueToasts) : Dismiss(key, FALSE)
       /\ UNCHANGED <<menuVars, selectVars>>
    \/ /\ Clear
       /\ UNCHANGED <<menuVars, selectVars>>

\* The toaster with the host's timers: a timeout that stays armed fires.
SpecLive ==
    /\ Init
    /\ [][LiveNext]_<<vars, menuVars, selectVars>>
    /\ WF_<<vars, menuVars, selectVars>>(TimerFires)

\* ------------------------------------------------- construction included
\* A toaster about to be constructed, with any maxToasts prop.
InitProps ==
    /\ maxToasts \in {<<>>} \cup {<<n>> : n \in -1..MaxLimit}
    /\ toasts = <<>>
    /\ queueToasts = <<>>
    /\ isRunning = FALSE
    /\ cancel = <<>>
    /\ toastId = 0
    /\ timers = {}
    /\ shows = 0
    /\ calls = <<>>
    /\ cleared = 0
    /\ keyedPending = {}
    /\ validation = "pending"
    /\ lastOp = [op |-> "init", key |-> Undefined, flag |-> FALSE, branch |-> "",
                 ret |-> Undefined, after |-> "", firedSince |-> FALSE,
                 unkeyed |-> 0]
    /\ MenuUnmounted
    /\ SelectUnmounted

\* The component is constructed: its props go through validateProps, and a
\* throw leaves no toaster to call.
Construct ==
    /\ validation = "pending"
    /\ validation' = IF ValidateProps(maxToasts) THEN "ok" ELSE "error"
    /\ UNCHANGED <<maxToasts, toasts, queueToasts, isRunning, cancel, toastId,
                   timers, shows, calls, lastOp, cleared, keyedPending>>

NextProps ==
    \/ Construct /\ UNCHANGED <<menuVars, selectVars>>
    \/ validation = "ok" /\ Next

SpecProps == InitProps /\ [][NextProps]_<<vars, menuVars, selectVars>>

\* =========================================================== ContextMenu2
\* Number of contextmenu events a behaviour dispatches.
MaxEvents == 3
\* clientX and clientY of an event range over 0..MaxCoord.
MaxCoord == 1

\* props.content: undefined, a JSX element, a render function that always
\* returns a menu, or one that returns a menu only while isOpen.
ContentKinds == {Undefined, "element", "fnElement", "fnWhenOpen"}
\* props.children: React nodes, or a render function.
ChildrenKinds == {"node", "fnChildren"}
\* props.onContextMenu: left out, or one of two handlers.
Handlers == {"h1", "h2"}

\* CoreUtils.isFunction
IsFunction(v) == v \in {"fnElement", "fnWhenOpen", "fnChildren"}

\* const contentProps = { isOpen, mouseEvent, targetOffset }
ContentProps == [isOpen |-> isOpen, mouseEvent |-> mouseEvent,
                 targetOffset |-> targetOffset]

\* content(contentProps) for the render functions of ContentKinds.
CallContent(c, contentProps) ==
    IF c = "fnWhenOpen" /\ ~contentProps.isOpen THEN Undefined ELSE "element"

\* const menu = disabled ? undefined : isFunction(content) ? content(contentProps) : content
Menu(d, c, contentProps) ==
    IF d THEN Undefined
    ELSE IF IsFunction(c) THEN CallContent(c, contentProps) ELSE c

\* maybePopover !== undefined
MaybePopover(d, c, contentProps) == Menu(d, c, contentProps) # Undefined

\* What the handleContextMenu created by a render closes over.
Callback(d, c, ch, h, contentProps) ==
    [disabled |-> d, children |-> ch, onContextMenu |-> h,
     maybePopover |-> MaybePopover(d, c, contentProps)]

\* React.useCallback(..., [onContextMenu, disabled]): the callback of an
\* earlier render is kept while the two dependencies are unchanged.
UseCallback(prev, d, c, ch, h, contentProps) ==
    IF prev.onContextMenu = h /\ prev.disabled = d
    THEN prev
    ELSE Callback(d, c, ch, h, contentProps)

\* The effect on [disabled] that never runs after mount.
DisabledEffectSkipped(wasDisabled, d, st) == st

\* React.useEffect(() => { setIsOpen(false) }, [disabled]), after a render
\* in which disabled went from wasDisabled to d.
DisabledEffect(wasDisabled, d, st) ==
    IF wasDisabled # d THEN [st EXCEPT !.isOpen = FALSE] ELSE st

\* handlePopoverInteraction(nextOpenState)
HandlePopoverInteraction(nextOpenState, st) ==
    IF ~nextOpenState
    THEN [st EXCEPT !.isOpen = FALSE, !.mouseEvent = <<>>]
    ELSE st

\* const shouldHandleEvent =
\*     !disabled && (isFunction(children) || maybePopover !== undefined)
\* as the callback cb evaluates it.
ShouldHandleEvent(cb) ==
    ~cb.disabled /\ (IsFunction(cb.children) \/ cb.maybePopover)

\* Offset taken from the event with the axes swapped.
EventOffsetSwapped(e) == [left |-> e.clientY, top |-> e.clientX]

\* { left: e.clientX, top: e.clientY }
EventOffset(e) == [left |-> e.clientX, top |-> e.clientY]

\* What is recorded of a step: its kind, its event, whether the event came
\* defaultPrevented, whether the handler called preventDefault, the
\* consumer's handler it invoked, whether it handled the event; and of the
\* steps so far, the last event handleContextMenu handled.
MenuOp(op, e, defaultPrevented, preventDefault, invoked, handled) ==
    [op |-> op, event |-> e, defaultPrevented |-> defaultPrevented,
     preventDefault |-> preventDefault, invoked |-> invoked, handled |-> handled,
     lastHandled |-> IF op = "contextmenu" /\ handled THEN e
                     ELSE menuOp.lastHandled]

\* No toaster is mounted.
ToasterUnmounted ==
    /\ maxToasts = <<>>
    /\ toasts = <<>>
    /\ queueToasts = <<>>
    /\ isRunning = FALSE
    /\ cancel = <<>>
    /\ toastId = 0
    /\ timers = {}
    /\ shows = 0
    /\ calls = <<>>
    /\ cleared = 0
    /\ keyedPending = {}
    /\ validation = "pending"
    /\ lastOp = <<>>

\* The component after its first render and the first run of its effect.
MenuInit ==
    /\ disabled \in BOOLEAN
    /\ content \in ContentKinds
    /\ children \in ChildrenKinds
    /\ onContextMenu \in {Undefined} \cup Handlers
    /\ targetOffset = <<>>
    /\ mouseEvent = <<>>
    /\ isOpen = FALSE
    /\ handleContextMenu =
          Callback(disabled, content, children, onContextMenu,
                   [isOpen |-> FALSE, mouseEvent |-> <<>>, targetOffset |-> <<>>])
    /\ events = 0
    /\ menuOp = [op |-> "mount", event |-> <<>>, defaultPrevented |-> FALSE,
                 preventDefault |-> FALSE, invoked |-> Undefined,
                 handled |-> FALSE, lastHandled |-> <<>>]
    /\ ToasterUnmounted
    /\ SelectUnmounted

\* The parent re-renders the component with new props: the render, then the
\* effect on [disabled] and the render its state change causes.
SetProps(d, c, ch, h) ==
    /\ <<d, c, ch, h>> # <<disabled, content, children, onContextMenu>>
    /\ disabled' = d
    /\ content' = c
    /\ children' = ch
    /\ onContextMenu' = h
    /\ LET st == DisabledEffect(disabled, d, ContentProps) IN
       /\ isOpen' = st.isOpen
       /\ mouseEvent' = st.mouseEvent
       /\ targetOffset' = st.targetOffset
    /\ handleContextMenu' = UseCallback(handleContextMenu, d, c, ch, h, ContentProps)
    /\ menuOp' = MenuOp("props", <<>>, FALSE, FALSE, Undefined, FALSE)
    /\ UNCHANGED events

\* A contextmenu event reaches the element that carries handleContextMenu.
ContextMenuEvent(x, y, defaultPrevented) ==
    /\ events < MaxEvents
    /\ events' = events + 1
    /\ LET e == [id |-> events + 1, clientX |-> x, clientY |-> y]
           cb == handleContextMenu
       IN IF defaultPrevented
          THEN /\ menuOp' = MenuOp("contextmenu", <<e>>, TRUE, FALSE, Undefined, FALSE)
               /\ UNCHANGED <<mouseEvent, targetOffset, isOpen>>
          ELSE IF ShouldHandleEvent(cb)
          THEN /\ mouseEvent' = <<e>>
               /\ targetOffset' = <<EventOffset(e)>>
               /\ isOpen' = TRUE
               /\ menuOp' = MenuOp("contextmenu", <<e>>, FALSE, TRUE,
                                   cb.onContextMenu, TRUE)
          ELSE /\ menuOp' = MenuOp("contextmenu", <<e>>, FALSE, FALSE,
                                   cb.onContextMenu, FALSE)
               /\ UNCHANGED <<mouseEvent, targetOffset, isOpen>>
    /\ UNCHANGED <<disabled, content, children, onContextMenu, handleContextMenu>>

\* The rendered Popover2 reports an interaction through onInteraction.
PopoverInteraction(nextOpenState) ==
    /\ MaybePopover(disabled, content, ContentProps)
    /\ LET st == HandlePopoverInteraction(nextOpenState, ContentProps) IN
       /\ isOpen' = st.isOpen
       /\ mouseEvent' = st.mouseEvent
       /\ targetOffset' = st.targetOffset
    /\ menuOp' = MenuOp("interaction", <<>>, FALSE, FALSE, Undefined, nextOpenState)
    /\ UNCHANGED <<disabled, content, children, onContextMenu, handleContextMenu,
                   events>>

MenuNext ==
    \/ /\ \E d \in BOOLEAN, c \in ContentKinds, ch \in ChildrenKinds,
             h \in {Undefined} \cup Handlers : SetProps(d, c, ch, h)
       /\ UNCHANGED <<vars, selectVars>>
    \/ /\ \E x \in 0..MaxCoord, y \in 0..MaxCoord, defaultPrevented \in BOOLEAN :
             ContextMenuEvent(x, y, defaultPrevented)
       /\ UNCHANGED <<vars, selectVars>>
    \/ /\ \E nextOpenState \in BOOLEAN : PopoverInteraction(nextOpenState)
       /\ UNCHANGED <<vars, selectVars>>

SpecMenu == MenuInit /\ [][MenuNext]_<<vars, menuVars, selectVars>>

\* ================================================= select keyboard navigation
\* Number of items the component is rendered with.
MaxItems == 4

\* The items a suite renders: item i has rank i, is disabled or not
\* (itemDisabled) and matches the query or not (itemPredicate).
ItemLists ==
    UNION {[1..n -> [disabled : BOOLEAN, matches : BOOLEAN]] : n \in 0..MaxItems}

\* The filtered list: the ranks of the items the query keeps, in order.
FilteredItems == SelectSeq([i \in 1..Len(items) |-> i], LAMBDA i : items[i].matches)

\* Position of the active item in the filtered list, 0 when there is none.
ActiveIndex ==
    IF activeItem = <<>> THEN 0
    ELSE CHOOSE i \in 1..Len(FilteredItems) : FilteredItems[i] = activeItem[1]

\* Clamping instead of wrapping at the ends of the list.
ClampNumber(v, min, max) == IF v < min THEN min ELSE IF v > max THEN max ELSE v

\* Wrap a position that has left min..max by one back in at the other end.
WrapNumber(v, min, max) == IF v < min THEN max ELSE IF v > max THEN min ELSE v

\* The first enabled item met from startIndex in the given direction,
\* wrapping, each position probed at most once; <<>> when there is none.
RECURSIVE FirstEnabledFrom(_, _, _, _)
FirstEnabledFrom(filtered, index, direction, startIndex) ==
    LET next == WrapNumber(index + direction, 1, Len(filtered)) IN
    IF ~items[filtered[next]].disabled THEN <<filtered[next]>>
    ELSE IF next # startIndex /\ startIndex # 0
    THEN FirstEnabledFrom(filtered, next, direction, startIndex)
    ELSE <<>>

\* The item an arrow key moves to: <<>> when the list is empty or holds no
\* enabled item.
GetNextActiveItem(filtered, direction, startIndex) ==
    IF filtered = <<>> THEN <<>>
    ELSE FirstEnabledFrom(filtered, startIndex, direction, startIndex)

\* The component as a suite renders it: the first enabled filtered item is
\* active, or any enabled filtered item after earlier navigation.
SelectInit ==
    /\ items \in ItemLists
    /\ LET enabled == {i \in 1..Len(items) : items[i].matches /\ ~items[i].disabled}
       IN activeItem \in IF enabled = {} THEN {<<>>} ELSE {<<i>> : i \in enabled}
    /\ onActiveItemChange = <<>>
    /\ lastKey = ""
    /\ ToasterUnmounted
    /\ MenuUnmounted

\* keydown of ArrowDown (direction 1) or ArrowUp (direction -1) in the input.
ArrowKey(key, direction) ==
    LET nextActiveItem == GetNextActiveItem(FilteredItems, direction, ActiveIndex) IN
    /\ lastKey' = key
    /\ IF nextActiveItem # <<>>
       THEN /\ activeItem' = nextActiveItem
            /\ onActiveItemChange' = <<nextActiveItem[1]>>
       ELSE /\ onActiveItemChange' = <<>>
            /\ UNCHANGED activeItem
    /\ UNCHANGED items

SelectNext ==
    \/ ArrowKey("ArrowDown", 1) /\ UNCHANGED <<vars, menuVars>>
    \/ ArrowKey("ArrowUp", -1) /\ UNCHANGED <<vars, menuVars>>

SpecSelect == SelectInit /\ [][SelectNext]_<<vars, menuVars, selectVars>>

\* ================================================================ claims

\* The identifiers of a sequence of records, in order.
KeySeq(ts) == [i \in 1..Len(ts) |-> ts[i].key]

\* The records of both collections.
Held == toasts \o queueToasts

\* The onDismiss invocations among cs that were made for record t with the
\* given flag.
CallsFor(cs, t, flag) ==
    {i \in 1..Len(cs) : /\ cs[i].key = t.key
                        /\ cs[i].message = t.message
                        /\ cs[i].timeoutExpired = flag}

\* C1: with maxToasts configured, visible never holds more than maxToasts
\* records.
C1_VisibleWithinMax == maxToasts # <<>> => Len(toasts) <= maxToasts[1]

\* A timer release into a full visible collection evicted a record (its
\* onDismiss ran) and visible is at the limit again.
C1_Witness ==
    /\ maxToasts # <<>>
    /\ Len(toasts) = maxToasts[1]
    /\ lastOp.branch = "release"
    /\ calls # <<>>

\* C2: no identifier is carried by a pending and by a visible record at the
\* same time.
C2_PendingVisibleDisjoint == Keys(toasts) \cap Keys(queueToasts) = {}

\* C3: identifiers are unique: no two visible records and no two pending
\* records share one, and the record a show has just created is the only one
\* held under its identifier.
C3_UniqueIdentifiers ==
    /\ \A i, j \in 1..Len(toasts) : i # j => toasts[i].key # toasts[j].key
    /\ \A i, j \in 1..Len(queueToasts) :
          i # j => queueToasts[i].key # queueToasts[j].key
    /\ lastOp.branch \in {"enqueue", "immediate"} =>
          Cardinality({i \in 1..Len(Held) : Held[i].key = lastOp.ret}) = 1

\* C4: after dismiss(id) no record with identifier id is left in visible or
\* in pending.
C4_DismissDestroysRecord ==
    lastOp.op = "dismiss" => lastOp.key \notin Keys(toasts) \cup Keys(queueToasts)

\* C5: dismiss of an identifier no visible record carries invokes no
\* onDismiss and leaves visible, pending and the scheduler as they were.
C5_DismissAbsentIsNoOp ==
    [][(lastOp'.op = "dismiss" /\ lastOp'.key \notin Keys(toasts)) =>
          /\ calls' = <<>>
          /\ UNCHANGED <<toasts, queueToasts, isRunning, cancel, timers, toastId>>]_vars

\* dismiss was called with the identifier of a record that is only pending,
\* while another record, with an onDismiss, is visible.
C5_Witness ==
    /\ lastOp.op = "dismiss"
    /\ lastOp.branch = "absent"
    /\ lastOp.key \in Keys(queueToasts)
    /\ \E i \in 1..Len(toasts) : toasts[i].onDismiss

\* C6: clear() invokes the onDismiss of every visible record that has one
\* exactly once, with false (one invocation for each place the record takes
\* in visible), invokes nothing else, and leaves visible and pending empty.
C6_ClearDismissesAll ==
    [][lastOp'.op = "clear" =>
          /\ toasts' = <<>>
          /\ queueToasts' = <<>>
          /\ \A i \in 1..Len(toasts) :
                toasts[i].onDismiss =>
                    /\ Cardinality(CallsFor(calls', toasts[i], FALSE)) =
                          Cardinality({j \in 1..Len(toasts) : toasts[j] = toasts[i]})
                    /\ CallsFor(calls', toasts[i], TRUE) = {}
          /\ Len(calls') = Len(SelectSeq(toasts, LAMBDA t : t.onDismiss))]_vars

\* clear() ran with at least two visible records carrying an onDismiss.
C6_Witness == lastOp.op = "clear" /\ Len(calls) >= 2

\* C7: a clear() right after a clear() invokes no onDismiss and changes
\* nothing.
C7_ClearIdempotent ==
    [][(lastOp.op = "clear" /\ lastOp'.op = "clear") =>
          /\ calls' = <<>>
          /\ UNCHANGED <<toasts, queueToasts, isRunning, cancel, timers,
                         toastId, maxToasts>>]_vars

\* A second clear() in a row, after toasts had been shown.
C7_Witness == lastOp.op = "clear" /\ lastOp.after = "clear" /\ shows >= 2

\* C8: after clear() no timer is armed, the scheduler is idle and the cancel
\* handle is gone; and no record of a show made before the last clear() is
\* visible or pending.
C8_ClearStopsScheduler ==
    /\ lastOp.op = "clear" => (timers = {} /\ ~isRunning /\ cancel = <<>>)
    /\ \A i \in 1..Len(Held) : Held[i].message > cleared

\* clear() was called with records pending behind an armed timer.
C8_Witness == lastOp.op = "clear" /\ lastOp.branch = "pending" /\ cleared >= 2

\* C9: at most one release timer is armed, and one is armed exactly when
\* isRunning is true.
C9_SingleTimer ==
    /\ Cardinality(timers) <= 1
    /\ isRunning <=> timers # {}

\* The timer has fired, released a record and been re-armed.
C9_Witness ==
    /\ lastOp.branch = "release"
    /\ isRunning
    /\ Cardinality(timers) = 1

\* C10: pending changes only by an append at its tail (show while running),
\* by the removal of its head, which becomes the head of visible (timer
\* release), by being emptied (clear), or in place; and a show that updates
\* a record leaves the order of the identifiers of both collections as it was.
C10_FifoRelease ==
    [][/\ \/ lastOp'.branch = "enqueue" /\ Len(queueToasts') = Len(queueToasts) + 1
             /\ SubSeq(queueToasts', 1, Len(queueToasts)) = queueToasts
             /\ queueToasts'[Len(queueToasts')].key = lastOp'.ret
          \/ lastOp'.branch = "release" /\ queueToasts # <<>>
             /\ queueToasts' = Tail(queueToasts)
             /\ toasts' # <<>> /\ toasts'[1] = Head(queueToasts)
          \/ lastOp'.op = "clear" /\ queueToasts' = <<>>
          \/ lastOp'.branch \notin {"enqueue", "release"}
             /\ KeySeq(queueToasts') = KeySeq(queueToasts)
       /\ lastOp'.branch \in {"updateQueued", "updateShown"} =>
             /\ KeySeq(queueToasts') = KeySeq(queueToasts)
             /\ KeySeq(toasts') = KeySeq(toasts)]_vars

\* The timer released the older of two pending records and the younger one
\* is still pending.
C10_Witness ==
    /\ lastOp.branch = "release"
    /\ queueToasts # <<>>
    /\ toasts[1].message < queueToasts[1].message

\* ts with its records under identifier k replaced, each at its place, by a
\* record under k that carries message m.
UpdatedInPlace(ts, new, k, m) ==
    /\ Len(new) = Len(ts)
    /\ \A i \in 1..Len(ts) :
          IF ts[i].key = k
          THEN new[i].key = k /\ new[i].message = m
          ELSE new[i] = ts[i]

\* C11: show(request, k) with k carried by a pending record replaces that
\* record's content at its place in pending and returns k; visible, the
\* scheduler and toastId are unchanged and no onDismiss is invoked.
C11_UpdatePendingInPlace ==
    [][(lastOp'.op = "show" /\ lastOp'.key # Undefined
            /\ lastOp'.key \in Keys(queueToasts)) =>
          /\ lastOp'.ret = lastOp'.key
          /\ UpdatedInPlace(queueToasts, queueToasts', lastOp'.key, shows')
          /\ calls' = <<>>
          /\ UNCHANGED <<toasts, isRunning, cancel, timers, toastId>>]_vars

\* A keyed show has updated the head of pending, with another record
\* pending behind it.
C11_Witness ==
    /\ lastOp.branch = "updateQueued"
    /\ Len(queueToasts) >= 2
    /\ queueToasts[1].key = lastOp.key
    /\ queueToasts[1].message = shows
    /\ queueToasts[2].key # lastOp.key

\* C12: show(request, k) with k carried by a visible record and by no
\* pending one replaces that record's content at its place in visible and
\* returns k; nothing is evicted, no onDismiss is invoked, and pending, the
\* scheduler and toastId are unchanged.
C12_UpdateVisibleInPlace ==
    [][(lastOp'.op = "show" /\ lastOp'.key # Undefined
            /\ lastOp'.key \notin Keys(queueToasts)
            /\ lastOp'.key \in Keys(toasts)) =>
          /\ lastOp'.ret = lastOp'.key
          /\ UpdatedInPlace(toasts, toasts', lastOp'.key, shows')
          /\ calls' = <<>>
          /\ UNCHANGED <<queueToasts, isRunning, cancel, timers, toastId>>]_vars

\* A keyed show has updated the oldest record of a visible collection that
\* is at its maximum, while the scheduler was idle.
C12_Witness ==
    /\ lastOp.branch = "updateShown"
    /\ maxToasts # <<>> /\ Len(toasts) = maxToasts[1]
    /\ Len(toasts) >= 2
    /\ toasts[Len(toasts)].key = lastOp.key
    /\ toasts[Len(toasts)].message = shows
    /\ ~isRunning

\* C13: a record queued by show(X, k) and updated while pending by
\* show(Y, k), with no dismiss or clear since, never shows X's content; when
\* the timer releases it, it is the only visible record under k and carries
\* Y's content.
C13_PendingUpdateShownOnce ==
    \A u \in keyedPending :
        u.first # u.last =>
            /\ \A i \in 1..Len(toasts) : toasts[i].message # u.first
            /\ u.released =>
                  /\ toasts # <<>>
                  /\ toasts[1].key = u.key
                  /\ toasts[1].message = u.last
                  /\ Cardinality({i \in 1..Len(toasts) : toasts[i].key = u.key}) = 1

\* The timer has just released a record that was updated while pending.
C13_Witness ==
    \E u \in keyedPending : u.released /\ u.first # u.last

\* C14: when a record is admitted to visible (by show or by a timer
\* release) while visible holds maxToasts records, exactly one record is
\* evicted, the last of visible; its onDismiss, if any, is invoked once with
\* false and nothing else is invoked; the other records stay in their order
\* behind the new one.
C14_EvictOldestAtCapacity ==
    [][(lastOp'.branch \in {"immediate", "release"}
            /\ maxToasts # <<>> /\ Len(toasts) = maxToasts[1]) =>
          LET oldest == toasts[Len(toasts)] IN
          /\ Len(toasts') = Len(toasts)
          /\ Tail(toasts') = SubSeq(toasts, 1, Len(toasts) - 1)
          /\ calls' = IF oldest.onDismiss
                      THEN <<[key |-> oldest.key, message |-> oldest.message,
                              timeoutExpired |-> FALSE]>>
                      ELSE <<>>]_vars

\* Whether show's key argument names no record the toaster holds: the show
\* creates a record.
CreatesRecord(key) ==
    key = Undefined \/ key \notin Keys(toasts) \cup Keys(queueToasts)

\* The identifier show resolves for its key argument.
Resolved(key) == IF key = Undefined THEN AutoKey(toastId) ELSE key

\* C15: show of a new record while the scheduler is idle puts the record at
\* the head of visible in that step, leaves pending empty, arms one release
\* timer, sets isRunning and returns the resolved identifier.
C15_ShowWhileIdle ==
    [][(lastOp'.op = "show" /\ ~isRunning /\ CreatesRecord(lastOp'.key)) =>
          /\ lastOp'.ret = Resolved(lastOp'.key)
          /\ toasts' # <<>>
          /\ toasts'[1].key = lastOp'.ret
          /\ toasts'[1].message = shows'
          /\ queueToasts' = <<>>
          /\ isRunning'
          /\ Cardinality(timers') = 1
          /\ cancel' # <<>> /\ cancel'[1] \in timers']_vars

\* A keyed show found the scheduler idle and its record heads a visible
\* collection that already held another record.
C15_Witness ==
    /\ lastOp.branch = "immediate"
    /\ lastOp.key # Undefined
    /\ Len(toasts) >= 2
    /\ toasts[1].key = lastOp.key
    /\ isRunning

\* C16: show of a new record while the scheduler is running appends it to
\* the tail of pending and returns its identifier; visible, isRunning, the
\* cancel handle and the armed timer are unchanged and no onDismiss is
\* invoked.
C16_ShowWhileRunning ==
    [][(lastOp'.op = "show" /\ isRunning /\ CreatesRecord(lastOp'.key)) =>
          /\ lastOp'.ret = Resolved(lastOp'.key)
          /\ Len(queueToasts') = Len(queueToasts) + 1
          /\ SubSeq(queueToasts', 1, Len(queueToasts)) = queueToasts
          /\ queueToasts'[Len(queueToasts')].key = lastOp'.ret
          /\ queueToasts'[Len(queueToasts')].message = shows'
          /\ calls' = <<>>
          /\ UNCHANGED <<toasts, isRunning, cancel, timers>>]_vars

\* A show was queued behind another pending record while visible was at its
\* maximum.
C16_Witness ==
    /\ lastOp.branch = "enqueue"
    /\ Len(queueToasts) >= 2
    /\ queueToasts[Len(queueToasts)].message = shows
    /\ maxToasts # <<>> /\ Len(toasts) = maxToasts[1]

\* C17: a timer firing with pending non-empty moves the head of pending to
\* the head of visible and re-arms one timer, staying Running; with pending
\* empty it admits nothing, arms nothing and goes Idle.  The scheduler goes
\* Idle -> Running only on a show that creates a record, Running -> Idle only
\* on a timer firing or clear, and clear always leaves it Idle.
C17_SchedulerStateMachine ==
    [][/\ lastOp'.op = "timeout" =>
             /\ isRunning
             /\ IF queueToasts # <<>>
                THEN /\ queueToasts' = Tail(queueToasts)
                     /\ toasts' # <<>> /\ toasts'[1] = Head(queueToasts)
                     /\ isRunning' /\ Cardinality(timers') = 1
                ELSE /\ toasts' = toasts /\ queueToasts' = <<>>
                     /\ ~isRunning' /\ timers' = {}
       /\ (~isRunning /\ isRunning') =>
             lastOp'.op = "show" /\ CreatesRecord(lastOp'.key)
       /\ (isRunning /\ ~isRunning') => lastOp'.op \in {"timeout", "clear"}
       /\ lastOp'.op = "clear" => ~isRunning' /\ timers' = {}]_vars

\* The timer released the last pending record, fired again and left the
\* scheduler idle with records visible.
C17_Witness ==
    /\ lastOp.branch = "idle"
    /\ lastOp.after = "timeout"
    /\ ~isRunning
    /\ Len(toasts) >= 2

\* C18: dismiss(id, flag) with id carried by a visible record removes the
\* record(s) under id from visible, invokes their onDismiss with that flag
\* and nothing else, keeps the other visible records in their order, and
\* leaves pending and the scheduler unchanged.
C18_DismissVisible ==
    [][(lastOp'.op = "dismiss" /\ lastOp'.key \in Keys(toasts)) =>
          LET k == lastOp'.key
              hit == {i \in 1..Len(toasts) : toasts[i].key = k /\ toasts[i].onDismiss}
          IN
          /\ k \notin Keys(toasts')
          /\ toasts' = SelectSeq(toasts, LAMBDA t : t.key # k)
          /\ \A i \in hit :
                /\ Cardinality(CallsFor(calls', toasts[i], lastOp'.flag)) =
                      Cardinality({j \in hit : toasts[j] = toasts[i]})
                /\ CallsFor(calls', toasts[i], ~lastOp'.flag) = {}
          /\ Len(calls') = Cardinality(hit)
          /\ UNCHANGED <<queueToasts, isRunning, cancel, timers>>]_vars

\* dismiss with timeoutExpired = true removed a record with an onDismiss
\* from between two others, while a record was pending.
C18_Witness ==
    /\ lastOp.op = "dismiss" /\ lastOp.branch = "shown" /\ lastOp.flag
    /\ Len(calls) = 1 /\ calls[1].timeoutExpired
    /\ Len(toasts) >= 2
    /\ toasts[1].message > calls[1].message
    /\ toasts[2].message < calls[1].message
    /\ queueToasts # <<>>

RECURSIVE IsSubSeq(_, _)
\* Whether a is b with some elements left out.
IsSubSeq(a, b) ==
    IF a = <<>> THEN TRUE
    ELSE IF b = <<>> THEN FALSE
    ELSE IF Head(a) = Head(b) THEN IsSubSeq(Tail(a), Tail(b))
    ELSE IsSubSeq(a, Tail(b))

\* C19: getToasts returns the visible records newest first and no pending
\* one: a step either removes records from the result, or replaces records
\* at their place, or puts the one record it admits (the new record of a
\* show while idle, the head of pending on a release) in front of records
\* that were there; a show that queues or updates a pending record leaves
\* the result as it was.
C19_NewestFirst ==
    [][/\ \/ IsSubSeq(GetToasts', GetToasts)
          \/ /\ lastOp'.branch = "updateShown"
             /\ UpdatedInPlace(GetToasts, GetToasts', lastOp'.key, shows')
          \/ /\ lastOp'.branch \in {"immediate", "release"}
             /\ GetToasts' # <<>>
             /\ IF lastOp'.op = "timeout"
                THEN queueToasts # <<>> /\ GetToasts'[1] = Head(queueToasts)
                ELSE /\ GetToasts'[1].key = lastOp'.ret
                     /\ GetToasts'[1].message = shows'
             /\ IsSubSeq(Tail(GetToasts'), GetToasts)
       /\ lastOp'.branch \in {"enqueue", "updateQueued"} =>
             GetToasts' = GetToasts]_vars

\* A release put a record in front of two visible ones while another record
\* was still pending.
C19_Witness ==
    /\ lastOp.branch = "release"
    /\ Len(GetToasts) >= 3
    /\ queueToasts # <<>>

\* C20: validateProps rejects a maxToasts below 1 before any toast is
\* processed and accepts an undefined one or one of at least 1; and with
\* maxToasts undefined, admitting a record evicts nothing.
C20_MaxToastsValidated ==
    [][/\ validation' # "pending"
       /\ validation' = "error" <=> (maxToasts # <<>> /\ maxToasts[1] < 1)
       /\ validation' = "error" =>
             shows' = 0 /\ toasts' = <<>> /\ queueToasts' = <<>> /\ lastOp'.op = "init"
       /\ (maxToasts = <<>> /\ lastOp'.op \in {"show", "timeout"}) =>
             /\ calls' = <<>>
             /\ lastOp'.branch \in {"immediate", "release"} =>
                   Tail(toasts') = toasts]_vars

\* validateProps has rejected maxToasts = 0.
C20_Witness == validation = "error" /\ maxToasts = <<0>>


\* ------------------------------------------------------------ ContextMenu2
\* The current render hands contentProps to a render function: children
\* when it is one, content when it is one and the menu is not disabled.
RenderPropsPassed == IsFunction(children) \/ (~disabled /\ IsFunction(content))

\* C21: in every reachable state of ContextMenu2, whenever isOpen is false
\* the mouseEvent passed to the content/children render props is undefined.
C21_ClosedMeansNoEvent ==
    (RenderPropsPassed /\ ~isOpen) => mouseEvent = <<>>

\* C22 as stated: a change of disabled closes the menu, which stays closed
\* until a contextmenu event is handled; while disabled, a contextmenu event
\* changes no state, calls no preventDefault, and the consumer's
\* onContextMenu is invoked with it.
C22_DisabledAsStated ==
    [][/\ disabled' # disabled => ~isOpen'
       /\ (~isOpen /\ isOpen') =>
             (events' = events + 1 /\ menuOp'.op = "contextmenu" /\ menuOp'.handled)
       /\ (events' # events /\ disabled) =>
             /\ UNCHANGED <<isOpen, targetOffset, mouseEvent>>
             /\ ~menuOp'.preventDefault
             /\ menuOp'.invoked = onContextMenu]_menuVars

\* C22 amended: as stated, except that while disabled the consumer's
\* onContextMenu is invoked for the events that are not already
\* defaultPrevented.
C22_Disabled ==
    [][/\ disabled' # disabled => ~isOpen'
       /\ (~isOpen /\ isOpen') =>
             (events' = events + 1 /\ menuOp'.op = "contextmenu" /\ menuOp'.handled)
       /\ (events' # events /\ disabled) =>
             /\ UNCHANGED <<isOpen, targetOffset, mouseEvent>>
             /\ ~menuOp'.preventDefault
             /\ ~menuOp'.defaultPrevented => menuOp'.invoked = onContextMenu]_menuVars

\* A menu that was opened, then disabled (which closed it), has received a
\* contextmenu event and passed it to the consumer's handler.
C22_Witness ==
    /\ disabled
    /\ ~isOpen
    /\ targetOffset # <<>>
    /\ menuOp.op = "contextmenu"
    /\ ~menuOp.defaultPrevented
    /\ menuOp.invoked \in Handlers

\* C30: with the component not disabled and either children a render
\* function or the current content yielding a defined menu, a contextmenu
\* event that is not already defaultPrevented is handled: isOpen becomes
\* true, mouseEvent that event, targetOffset its clientX / clientY.
C30_EnabledEventHandled ==
    [][(/\ events' # events
        /\ ~menuOp'.defaultPrevented
        /\ ~disabled
        /\ IsFunction(children) \/ MaybePopover(disabled, content, ContentProps))
       => /\ isOpen'
          /\ mouseEvent' = menuOp'.event
          /\ targetOffset' = <<EventOffset(menuOp'.event[1])>>]_menuVars


\* ------------------------------------------------------------------ select
\* The position d places after position a of a list of n, wrapping
\* (d negative: before).
Around(a, d, n) == ((a - 1 + d) % n) + 1

\* The nearest enabled position of the filtered list strictly after (dir 1)
\* or before (dir -1) position a in cyclic order, a itself last.
NearestEnabled(a, dir) ==
    LET n == Len(FilteredItems)
        enabledAt(d) == ~items[FilteredItems[Around(a, dir * d, n)]].disabled
        d == CHOOSE k \in 1..n : enabledAt(k) /\ \A j \in 1..(k - 1) : ~enabledAt(j)
    IN FilteredItems[Around(a, dir * d, n)]

Messages(ts) == {ts[i].message : i \in 1..Len(ts)}

\* The last operation put a new record into state.toasts.
Admitted(op) == op.branch \in {"immediate", "release"}

\* C24: between any two admissions of new records into visible (directly by
\* show, or released from pending) the release timer fires at least once,
\* whatever show, dismiss, clear and timer steps are interleaved.
C24_PacedDisplay ==
    [][(shows > 0 /\ Admitted(lastOp')) =>
          (lastOp'.op = "timeout" \/ lastOp.firedSince)]_vars

\* C25: the n-th un-keyed show (from 0) returns toast-n: the counter starts
\* at 0, grows by one per un-keyed show and by nothing else, and a show
\* with a key returns that key.
C25_AutoIdentifiers ==
    /\ toastId = lastOp.unkeyed
    /\ (lastOp.op = "show" /\ lastOp.key = Undefined) =>
          lastOp.ret = "toast-" \o ToString(lastOp.unkeyed - 1)
    /\ (lastOp.op = "show" /\ lastOp.key # Undefined) => lastOp.ret = lastOp.key

\* The third un-keyed show has returned, with a keyed show, a dismiss or
\* clear and timer firings before it.
C25_Witness ==
    /\ lastOp.op = "show"
    /\ lastOp.key = Undefined
    /\ lastOp.ret = "toast-2"
    /\ shows = 4
    /\ cleared > 0

\* C26: when the scheduler is idle, pending is empty; a record in pending
\* always has a timer armed to release it.
C26_IdleMeansNoPending ==
    /\ ~isRunning => queueToasts = <<>>
    /\ queueToasts # <<>> => timers # {}

\* The scheduler went idle with the last released records still visible.
C26_Witness ==
    /\ ~isRunning
    /\ timers = {}
    /\ lastOp.branch = "idle"
    /\ Len(toasts) >= 2

\* C28: clear() invokes no onDismiss of a record that is in pending, and
\* such a record is never visible, nor its onDismiss invoked, afterwards.
C28_ClearDiscardsPending ==
    /\ [][lastOp'.op = "clear" =>
             Messages(calls') \cap Messages(queueToasts) = {}]_vars
    /\ [](\A i \in 1..Len(toasts) : toasts[i].message > cleared)
    /\ [](lastOp.op # "clear" => \A i \in 1..Len(calls) : calls[i].message > cleared)

\* Every identifier a record can carry.
AllKeys == CallerKeys \cup {"toast-" \o ToString(n) : n \in 0..MaxShows}

\* C27: with timers that fire, every record put in pending is later
\* admitted to visible unless clear() comes first, whatever further shows
\* arrive; and after the last show the scheduler ends idle with pending
\* empty.
C27_PendingEventuallyShown ==
    /\ \A k \in AllKeys :
          (k \in Keys(queueToasts)) ~>
             \/ lastOp.branch = "release" /\ lastOp.key = k /\ k \in Keys(toasts)
             \/ lastOp.op = "clear"
    /\ <>[](~isRunning /\ queueToasts = <<>> /\ timers = {})

\* A pending record has been released while later shows are still pending.
C27_Witness ==
    /\ lastOp.branch = "release"
    /\ lastOp.key \in Keys(toasts)
    /\ Len(queueToasts) >= 2

\* No two records held carry the same identifier.
DistinctIdentifiers ==
    \A i, j \in 1..Len(Held) : i # j => Held[i].key # Held[j].key

\* C29: while the records held carry distinct identifiers, an operation
\* invokes onDismiss at most once per record, only for records it removes
\* from visible (by dismiss, eviction or clear), which are then held nowhere;
\* no record comes back once it is gone; and a keyed show that replaces
\* content invokes nothing.
C29_DismissedOnce ==
    [][DistinctIdentifiers =>
          /\ \A i, j \in 1..Len(calls') :
                i # j => calls'[i].message # calls'[j].message
          /\ \A i \in 1..Len(calls') :
                /\ \E j \in 1..Len(toasts) :
                      /\ toasts[j].message = calls'[i].message
                      /\ toasts[j].key = calls'[i].key
                      /\ toasts[j].onDismiss
                /\ calls'[i].message \notin Messages(toasts') \cup Messages(queueToasts')
          /\ calls' # <<>> =>
                \/ lastOp'.op \in {"dismiss", "clear"}
                \/ Admitted(lastOp') /\ maxToasts # <<>> /\ Len(toasts) = maxToasts[1]
          /\ Messages(toasts') \cup Messages(queueToasts')
                \subseteq Messages(toasts) \cup Messages(queueToasts) \cup {shows'}
          /\ shows' >= shows
          /\ lastOp'.branch \in {"updateQueued", "updateShown"} =>
                /\ calls' = <<>>
                /\ Messages(Held) \ Messages(toasts' \o queueToasts') # {}
      ]_vars

\* A keyed show has replaced the content of a record, which was later
\* dismissed with its onDismiss invoked, all identifiers being distinct.
C29_Witness ==
    /\ DistinctIdentifiers
    /\ lastOp.op = "dismiss"
    /\ lastOp.key \in CallerKeys
    /\ Len(calls) = 1
    /\ calls[1].message > 1
    /\ toasts # <<>>


\* C31: a contextmenu event that arrives defaultPrevented (an inner menu
\* handled it) leaves isOpen, mouseEvent and targetOffset unchanged and the
\* consumer's onContextMenu is not invoked; targetOffset is undefined until
\* an event has been handled and from then on is the clientX / clientY of
\* the last handled event, also after the menu was closed.
C31_NestedAndOffset ==
    /\ [][(events' # events /\ menuOp'.defaultPrevented) =>
             /\ UNCHANGED <<isOpen, mouseEvent, targetOffset>>
             /\ menuOp'.invoked = Undefined
             /\ ~menuOp'.preventDefault]_menuVars
    /\ [](targetOffset =
             IF menuOp.lastHandled = <<>> THEN <<>>
             ELSE <<[left |-> menuOp.lastHandled[1].clientX,
                      top |-> menuOp.lastHandled[1].clientY]>>)

\* An event was handled at (0, 1), the popover closed the menu, and a later
\* defaultPrevented event at other coordinates was ignored although the
\* consumer passes a handler.
C31_Witness ==
    /\ menuOp.op = "contextmenu"
    /\ menuOp.defaultPrevented
    /\ onContextMenu \in Handlers
    /\ ~disabled
    /\ ~isOpen
    /\ mouseEvent = <<>>
    /\ targetOffset = <<[left |-> 0, top |-> 1]>>
    /\ menuOp.event[1].clientX = 1
    /\ menuOp.lastHandled # <<>>
    /\ menuOp.lastHandled[1].id < menuOp.event[1].id

====
